---- MODULE Spec2Model ----
(***************************************************************************)
(* ledger-rs: the beanfile parser state (statement numbering across the    *)
(* include forest), the grammar parser's statements, and the Balancer.     *)
(***************************************************************************)
EXTENDS Integers, Sequences, FiniteSets, TLC

VARIABLES
    fs,                 \* the files on disk: resolved path -> sequence of lines
    pc,                 \* "start", "parsing", "parsed", "verified", "panic"
    frames,             \* the parser's recursion: one frame per parse_file call
    input_files,        \* LedgerState.input_files: path -> file_no
    current_file_no,    \* LedgerState.current_file_no (stack)
    current_filepath,   \* LedgerState.current_filepath (stack)
    previous_position,  \* LedgerState.previous_position: file_no -> last offset
    statement_no,       \* LedgerState.statement_no
    transaction_no,     \* LedgerState.transaction_no
    transactions,       \* Vec<HeaderParams>
    postings,           \* Vec<PostingParams>
    verifications,      \* Vec<VerificationParams>
    includes,           \* Vec<IncludeParams>
    informationals,     \* Vec<InfoParams>
    final_df,           \* Balancer output: final postings
    errors_df,          \* Balancer output: errors
    accounts_df,        \* Account Hierarchy Builder output: the closure
    balances_df,        \* Balance Reporter output
    issued,             \* history: values returned by statement_no(), in call order
    line_count,         \* LedgerState.line_count (AtomicU32)
    rdr,                \* an importer's reader: the rows not yet read
    stdout              \* the lines printed by the importers and write_transactions

vars == <<fs, pc, frames, input_files, current_file_no, current_filepath,
          previous_position, statement_no, transaction_no, transactions,
          postings, verifications, includes, informationals, final_df,
          errors_df, accounts_df, balances_df, issued, line_count, rdr,
          stdout>>

stateVars == <<input_files, current_file_no, current_filepath,
               previous_position, statement_no, transaction_no>>

accumulators == <<transactions, postings, verifications, includes,
                  informationals>>

dfVars == <<final_df, errors_df, accounts_df, balances_df>>

ioVars == <<line_count, rdr, stdout>>

----------------------------------------------------------------------------
(* Bounds of the model *)

MaxLines == 4      \* lines in the whole include forest
MaxDepth == 3      \* nested parse_file calls explored
MaxPostings == 3   \* rows of a postings table handed to the Balancer

----------------------------------------------------------------------------
(* Option<T> is a sequence of length at most one *)

None == <<>>

Some(x) == <<x>>

Indices(q) == 1..Len(q)

----------------------------------------------------------------------------
(* Paths and files *)

MainPath == <<"d", "main">>

APath == <<"d", "a">>

BPath == <<"d", "s", "b">>

Paths == {MainPath, APath, BPath}

\* Path::parent: the path without its last component
Parent(p) == SubSeq(p, 1, Len(p) - 1)

\* parse.rs include_statement: absolute paths verbatim, others joined to the
\* parent of the current file path
Resolve(abs, p, current_p) == IF abs THEN p ELSE Parent(current_p) \o p

----------------------------------------------------------------------------
(* Lines of a beanfile.  len is the byte length of the line without its     *)
(* line ending; cp / tc are the optional clauses of a posting line.        *)

Line(k, n, abs, p, account, cp, tc) ==
    [kind |-> k, len |-> n, abs |-> abs, path |-> p, account |-> account,
     cp |-> cp, tc |-> tc]

\* 2024-01-01 open Assets:A
OpenLine == Line("open", 24, FALSE, <<>>, "", None, None)

\* 2024-01-01 event "k" "v"
EventLine == Line("event", 24, FALSE, <<>>, "", None, None)

\* 2024-01-01 * "x"
HeaderLine == Line("header", 16, FALSE, <<>>, "", None, None)

\* an empty line
BlankLine == Line("blank", 0, FALSE, <<>>, "", None, None)

\* "  Assets:A" followed by the optional clauses
PostingLine(account, cp, tc) ==
    Line("posting", 10 + (IF cp = None THEN 0 ELSE 6)
                       + (IF tc = None THEN 0 ELSE 9), FALSE, <<>>, account,
         cp, tc)

\* indented text that is not a posting: empty_statement takes the spaces and
\* the rest of the line matches neither a line ending nor the end of file
JunkLine == Line("junk", 10, FALSE, <<>>, "", None, None)

\* include "<path>"
IncludeLine(abs, p) ==
    Line("include", 10 + (IF abs THEN 1 ELSE 0) + 2 * Len(p) - 1, abs, p,
         "", None, None)

RECURSIVE SumLen(_)
SumLen(c) == IF c = <<>> THEN 0 ELSE Head(c).len + SumLen(Tail(c))

\* byte offset at which line i of content c starts (lines end with LF)
StartOf(c, i) == SumLen(SubSeq(c, 1, i - 1)) + (i - 1)

EndOf(c, i) == StartOf(c, i) + c[i].len

\* get_contents: the number of bytes read
TotalBytes(c) == IF c = <<>> THEN 0 ELSE SumLen(c) + (Len(c) - 1)

----------------------------------------------------------------------------
(* core.rs action codes *)

OPEN_ACTION == 0

EVENT_ACTION == 3

----------------------------------------------------------------------------
(* LedgerState (state.rs), as a record so that one statement parser can     *)
(* apply several of its methods in sequence                                *)

State ==
    [input_files |-> input_files, current_file_no |-> current_file_no,
     current_filepath |-> current_filepath,
     previous_position |-> previous_position,
     statement_no |-> statement_no, transaction_no |-> transaction_no]

SetState(s) ==
    /\ input_files' = s.input_files
    /\ current_file_no' = s.current_file_no
    /\ current_filepath' = s.current_filepath
    /\ previous_position' = s.previous_position
    /\ statement_no' = s.statement_no
    /\ transaction_no' = s.transaction_no

\* LedgerState::new
NewState ==
    [input_files |-> <<>>, current_file_no |-> <<>>,
     current_filepath |-> <<>>, previous_position |-> <<>>,
     statement_no |-> 0, transaction_no |-> 0]

SetStateInit ==
    /\ input_files = NewState.input_files
    /\ current_file_no = NewState.current_file_no
    /\ current_filepath = NewState.current_filepath
    /\ previous_position = NewState.previous_position
    /\ statement_no = NewState.statement_no
    /\ transaction_no = NewState.transaction_no

\* HashMap::insert on a map kept as a function
MapInsert(m, k, v) == [x \in (DOMAIN m) \cup {k} |-> IF x = k THEN v ELSE m[x]]

\* insert that registers the path and leaves the file stack alone
insert_RegistersOnly(s, f) ==
    IF f \notin DOMAIN s.input_files
    THEN LET n == Cardinality(DOMAIN s.input_files) IN
         [s EXCEPT !.input_files = MapInsert(s.input_files, f, n),
                   !.previous_position = MapInsert(s.previous_position, n, 0)]
    ELSE s

\* LedgerState::insert: registers and pushes only a path that is new
insert(s, f) ==
    IF f \notin DOMAIN s.input_files
    THEN LET n == Cardinality(DOMAIN s.input_files) IN
         [s EXCEPT !.input_files = MapInsert(s.input_files, f, n),
                   !.current_file_no = Append(s.current_file_no, n),
                   !.current_filepath = Append(s.current_filepath, f),
                   !.previous_position = MapInsert(s.previous_position, n, 0)]
    ELSE s

\* LedgerState::get_file_no
get_file_no(s) ==
    IF Len(s.current_file_no) = 0 THEN None
    ELSE Some(s.current_file_no[Len(s.current_file_no)])

\* LedgerState::get_current_filepath
get_current_filepath(s) ==
    IF Len(s.current_file_no) = 0 THEN None
    ELSE Some(s.current_filepath[Len(s.current_file_no)])

\* the u32 expression  statement_no + r_start - prev  leaves the u32 range
Underflows(s, r_start) ==
    s.statement_no + r_start < s.previous_position[get_file_no(s)[1]]

\* statement_no that forgets to record the new last offset
StatementNo_KeepsLastPos(s, r_start) ==
    LET f == get_file_no(s)[1]
        prev == s.previous_position[f]
    IN [s EXCEPT !.statement_no = s.statement_no + r_start - prev]

\* LedgerState::statement_no, for a non-empty file stack; the value returned
\* is the statement_no field of the result
StatementNo(s, r_start) ==
    LET f == get_file_no(s)[1]
        prev == s.previous_position[f]
    IN [s EXCEPT !.statement_no = s.statement_no + r_start - prev,
                 !.previous_position = MapInsert(s.previous_position, f, r_start)]

\* LedgerState::finished_include, for a non-empty file stack
finished_include(s, n) ==
    LET f == get_file_no(s)[1]
        prev == s.previous_position[f]
    IN [s EXCEPT !.statement_no = s.statement_no + n - prev,
                 !.previous_position = MapInsert(s.previous_position, f, n),
                 !.current_file_no =
                     SubSeq(s.current_file_no, 1, Len(s.current_file_no) - 1)]

----------------------------------------------------------------------------
(* The grammar parser (parse.rs).  A frame is one parse_file call: the file *)
(* it reads, the next line, whether the previous line left the parser      *)
(* inside a transaction body, and the statement_no taken by the include    *)
(* directive that opened it.  before is the LedgerState as the directive   *)
(* met it and issued_before the number of statement_no() calls made until  *)
(* then, kept for the properties: no action reads them.                    *)

Frame(p, n, before, issued_before) ==
    [path |-> p, idx |-> 1, inTxn |-> FALSE, include_statement_no |-> n,
     before |-> before, issued_before |-> issued_before]

Top == frames[Len(frames)]

Content == fs[Top.path]

AtLine == pc = "parsing" /\ Top.idx <= Len(Content)

AtEof == pc = "parsing" /\ Top.idx > Len(Content)

CurLine == Content[Top.idx]

r_start == StartOf(Content, Top.idx)

r_end == EndOf(Content, Top.idx)

\* the frames after the statement on the current line has been consumed
NextLine(inTxn) ==
    [frames EXCEPT ![Len(frames)].idx = @ + 1, ![Len(frames)].inTxn = inTxn]

\* the frames after the innermost parse_file has returned to the include
\* line of its caller, which is then consumed
Return ==
    LET up == SubSeq(frames, 1, Len(frames) - 1)
    IN [up EXCEPT ![Len(up)].idx = @ + 1, ![Len(up)].inTxn = FALSE]

\* an unwrap() on None or Err: the process aborts
Panic ==
    /\ pc' = "panic"
    /\ UNCHANGED <<fs, frames, stateVars, accumulators, dfVars, ioVars, issued>>

\* a statement_no() call that panics: empty file stack, or u32 underflow
CannotAdvance(s, start) == get_file_no(s) = None \/ Underflows(s, start)

\* the lines a file at path p may consist of
LinesOf(p) ==
    IF p = MainPath
    THEN {OpenLine, EventLine, HeaderLine,
          PostingLine("Assets:A", None, None), BlankLine,
          IncludeLine(FALSE, <<"a">>), IncludeLine(FALSE, <<"s", "b">>)}
    ELSE IF p = APath
    THEN {OpenLine, HeaderLine, PostingLine("Assets:A", None, None), JunkLine,
          IncludeLine(FALSE, <<"s", "b">>), IncludeLine(FALSE, <<"a">>)}
    ELSE {OpenLine, HeaderLine, PostingLine("Assets:A", None, None),
          IncludeLine(TRUE, APath), IncludeLine(FALSE, <<"b">>)}

RECURSIVE LinesRead(_)
LinesRead(ps) ==
    IF ps = {} THEN 0
    ELSE LET p == CHOOSE x \in ps : TRUE
         IN Len(fs[p]) + LinesRead(ps \ {p})

\* parse.rs get_contents: what a read of path p may return.  A file read
\* before has the content it had; the files read so far hold at most
\* MaxLines lines.
Readable(p) ==
    IF p \in DOMAIN fs THEN {fs[p]}
    ELSE UNION {[1..k -> LinesOf(p)] : k \in 0..(MaxLines - LinesRead(DOMAIN fs))}

\* main.rs bean: LedgerState::new, insert(root), parse_filename(root)
bean ==
    /\ pc = "start"
    /\ \E c \in Readable(MainPath) : fs' = MapInsert(fs, MainPath, c)
    /\ SetState(insert(State, MainPath))
    /\ frames' = <<Frame(MainPath, 0, State, Len(issued))>>
    /\ pc' = "parsing"
    /\ UNCHANGED <<accumulators, dfVars, ioVars, issued>>

\* parse.rs open_statement (close_statement and balance_statement alike)
open_statement ==
    /\ AtLine /\ CurLine.kind = "open"
    /\ IF CannotAdvance(State, r_start) THEN Panic
       ELSE LET s == StatementNo(State, r_start) IN
            /\ SetState(s)
            /\ issued' = Append(issued, [no |-> s.statement_no, by |-> CurLine.kind])
            /\ verifications' = Append(verifications,
                   [statement_no |-> s.statement_no,
                    file_no |-> get_file_no(s)[1],
                    start |-> r_start, end |-> r_end,
                    action |-> OPEN_ACTION])
            /\ frames' = NextLine(FALSE)
            /\ UNCHANGED <<fs, pc, transactions, postings, includes,
                           informationals, dfVars, ioVars>>

\* parse.rs event_statement (option_statement and custom_statement alike)
event_statement ==
    /\ AtLine /\ CurLine.kind = "event"
    /\ IF CannotAdvance(State, r_start) THEN Panic
       ELSE LET s == StatementNo(State, r_start) IN
            /\ SetState(s)
            /\ issued' = Append(issued, [no |-> s.statement_no, by |-> CurLine.kind])
            /\ informationals' = Append(informationals,
                   [statement_no |-> s.statement_no,
                    file_no |-> get_file_no(s)[1],
                    start |-> r_start, end |-> r_end,
                    action |-> EVENT_ACTION])
            /\ frames' = NextLine(FALSE)
            /\ UNCHANGED <<fs, pc, transactions, postings, includes,
                           verifications, dfVars, ioVars>>

\* parse.rs transaction_header.  Its effects stay when transaction_statement
\* then fails for want of a posting and other_statement consumes the line.
transaction_header ==
    /\ AtLine /\ CurLine.kind = "header"
    /\ IF CannotAdvance(State, r_start) THEN Panic
       ELSE LET s == StatementNo(State, r_start)
                t == [s EXCEPT !.transaction_no = s.statement_no]
            IN
            /\ SetState(t)
            /\ issued' = Append(issued, [no |-> s.statement_no, by |-> CurLine.kind])
            /\ transactions' = Append(transactions,
                   [statement_no |-> s.statement_no,
                    file_no |-> get_file_no(s)[1],
                    start |-> r_start, end |-> r_end])
            /\ frames' = NextLine(TRUE)
            /\ UNCHANGED <<fs, pc, postings, includes, verifications,
                           informationals, dfVars, ioVars>>

\* Option<(Decimal, String)> of a clause as the pair of options the
\* opt_commodity_position / opt_total_cost parsers return
OptQuantity(clause) == IF clause = None THEN None ELSE Some(clause[1])

OptCommodity(clause) == IF clause = None THEN None ELSE Some(clause[2])

\* PostingParams with the tc pair always taken from the @@ clause
PostingParams_AlwaysTotalCost(no, t_no, f_no, start, end, account, cp, tc) ==
    [statement_no |-> no, transaction_no |-> t_no, file_no |-> f_no,
     start |-> start, end |-> end, account |-> account,
     cp_quantity |-> OptQuantity(cp), cp_commodity |-> OptCommodity(cp),
     tc_quantity |-> OptQuantity(tc), tc_commodity |-> OptCommodity(tc)]

\* parse.rs posting: the PostingParams built from the parsed clauses
PostingParams(no, t_no, f_no, start, end, account, cp, tc) ==
    LET cp_quantity == OptQuantity(cp)
        cp_commodity == OptCommodity(cp)
        tc_quantity == OptQuantity(tc)
        tc_commodity == OptCommodity(tc)
        p == [statement_no |-> no, transaction_no |-> t_no, file_no |-> f_no,
              start |-> start, end |-> end, account |-> account,
              cp_quantity |-> cp_quantity, cp_commodity |-> cp_commodity,
              tc_quantity |-> cp_quantity, tc_commodity |-> cp_commodity]
    IN IF ~(tc_quantity = None /\ tc_commodity = None)
       THEN [p EXCEPT !.tc_quantity = tc_quantity,
                      !.tc_commodity = tc_commodity]
       ELSE p

\* parse.rs posting, inside separated(1.., posting, line_ending) of
\* transaction_statement
posting ==
    /\ AtLine /\ CurLine.kind = "posting" /\ Top.inTxn
    /\ IF CannotAdvance(State, r_start) THEN Panic
       ELSE LET s == StatementNo(State, r_start) IN
            /\ SetState(s)
            /\ issued' = Append(issued, [no |-> s.statement_no, by |-> CurLine.kind])
            /\ postings' = Append(postings,
                   PostingParams(s.statement_no, s.transaction_no,
                                 get_file_no(s)[1], r_start, r_end,
                                 CurLine.account, CurLine.cp, CurLine.tc))
            /\ frames' = NextLine(TRUE)
            /\ UNCHANGED <<fs, pc, transactions, includes, verifications,
                           informationals, dfVars, ioVars>>

\* parse.rs other_statement (comment_statement alike): nothing is emitted
other_statement ==
    /\ AtLine /\ CurLine.kind = "blank"
    /\ frames' = NextLine(FALSE)
    /\ UNCHANGED <<fs, pc, stateVars, accumulators, dfVars, ioVars, issued>>

\* parse.rs include_statement up to its parse_file call: the directive takes
\* its statement_no, the path is resolved against the current file path,
\* inserted, read, and a nested parse_file starts
include_statement ==
    /\ AtLine /\ CurLine.kind = "include"
    /\ Len(frames) < MaxDepth
    /\ IF CannotAdvance(State, r_start) THEN Panic
       ELSE LET s == StatementNo(State, r_start)
                current_p == get_current_filepath(s)[1]
                in_filepath == Resolve(CurLine.abs, CurLine.path, current_p)
                t == insert(s, in_filepath)
            IN
            /\ SetState(t)
            /\ issued' = Append(issued, [no |-> s.statement_no, by |-> CurLine.kind])
            /\ IF in_filepath \in Paths
               THEN /\ \E c \in Readable(in_filepath) :
                         fs' = MapInsert(fs, in_filepath, c)
                    /\ frames' = Append(frames,
                                        Frame(in_filepath, s.statement_no,
                                              State, Len(issued)))
                    /\ pc' = pc
               ELSE \* get_contents(..).unwrap() on a path that cannot be read
                    /\ UNCHANGED <<fs, frames>>
                    /\ pc' = "panic"
            /\ UNCHANGED <<accumulators, dfVars, ioVars>>

\* parse.rs include_statement after its parse_file call returned Ok:
\* finished_include(total_n), then the Include record
include_finished ==
    /\ AtEof /\ Len(frames) > 1
    /\ IF CannotAdvance(State, TotalBytes(Content)) THEN Panic
       ELSE LET s == finished_include(State, TotalBytes(Content))
                up == frames[Len(frames) - 1]
                c == fs[up.path]
            IN
            /\ SetState(s)
            /\ IF get_file_no(s) = None
               THEN \* get_file_no().unwrap() for the record's file_no
                    /\ pc' = "panic"
                    /\ UNCHANGED <<frames, includes>>
               ELSE /\ includes' = Append(includes,
                           [statement_no |-> Top.include_statement_no,
                            file_no |-> get_file_no(s)[1],
                            start |-> StartOf(c, up.idx),
                            end |-> EndOf(c, up.idx),
                            path |-> c[up.idx].path])
                    /\ frames' = Return
                    /\ pc' = pc
            /\ UNCHANGED <<fs, transactions, postings, verifications,
                           informationals, dfVars, ioVars, issued>>

\* a line that active_statement leaves partly unread (an indented line that
\* is no posting of a transaction): full_file fails at eof
Unparsable ==
    /\ AtLine
    /\ \/ CurLine.kind = "junk"
       \/ CurLine.kind = "posting" /\ ~Top.inTxn

\* the failure reaches parse_filename, whose unwrap() aborts
parse_filename_failed ==
    /\ Unparsable /\ Len(frames) = 1
    /\ Panic

\* the failure reaches include_statement, whose `?` returns it to alt: the
\* remaining alternatives are tried and other_statement takes the include
\* line; finished_include is not called and no Include record is pushed
include_failed ==
    /\ Unparsable /\ Len(frames) > 1
    /\ frames' = Return
    /\ UNCHANGED <<fs, pc, stateVars, accumulators, dfVars, ioVars, issued>>

\* parse_filename returns: the root file was read to its end
parse_filename_done ==
    /\ AtEof /\ Len(frames) = 1
    /\ pc' = "parsed"
    /\ frames' = <<>>
    /\ UNCHANGED <<fs, stateVars, accumulators, dfVars, ioVars, issued>>

----------------------------------------------------------------------------
(* The Balancer (verify.rs).  A data frame is a sequence of rows, a null is *)
(* None; quantities are integers (decimal minor units).  Row order of a    *)
(* grouped frame is not fixed by the engine: grouped frames are sets.      *)

\* the commodities of the model in the order of str comparison
Commodities == <<"AAPL", "USD">>

CommodityLess(a, b) ==
    \E i, j \in Indices(Commodities) :
        i < j /\ Commodities[i] = a /\ Commodities[j] = b

\* sum() of a nullable column: nulls are skipped, no row gives 0
RECURSIVE Sum(_)
Sum(column) ==
    IF column = <<>> THEN 0
    ELSE (IF Head(column) = None THEN 0 ELSE Head(column)[1]) + Sum(Tail(column))

\* the sum of the total column of a set of joined rows
RECURSIVE SumOverSet(_)
SumOverSet(J) ==
    IF J = {} THEN 0
    ELSE LET j == CHOOSE x \in J : TRUE
         IN j.totals.total + SumOverSet(J \ {j})

\* coalesce with its expressions in the other order
coalesce_SecondFirst(a, b) == IF b # None THEN b ELSE a

\* polars coalesce of two expressions
coalesce(a, b) == IF a # None THEN a ELSE b

RECURSIVE SetToSeq(_)
SetToSeq(S) ==
    IF S = {} THEN <<>>
    ELSE LET x == CHOOSE y \in S : TRUE IN <<x>> \o SetToSeq(S \ {x})

RECURSIVE Flatten(_)
Flatten(ss) == IF ss = <<>> THEN <<>> ELSE Head(ss) \o Flatten(Tail(ss))

\* Totals without the filter(totals != 0)
Totals_KeepZero(df) ==
    LET rows == SelectSeq(df, LAMBDA r : r.tc_commodity # None)
        keys == {<<rows[i].transaction_no, rows[i].tc_commodity>> :
                    i \in Indices(rows)}
        group(k) == SelectSeq(rows, LAMBDA r : r.transaction_no = k[1]
                                              /\ r.tc_commodity = k[2])
    IN {[transaction_no |-> k[1], tc_commodity |-> k[2],
         totals |-> Some(Sum([i \in Indices(group(k)) |->
                                group(k)[i].tc_quantity]) * (-1))] :
           k \in keys}

\* Totals without the sign flip
Totals_NotNegated(df) ==
    LET rows == SelectSeq(df, LAMBDA r : r.tc_commodity # None)
        keys == {<<rows[i].transaction_no, rows[i].tc_commodity>> :
                    i \in Indices(rows)}
        group(k) == SelectSeq(rows, LAMBDA r : r.transaction_no = k[1]
                                              /\ r.tc_commodity = k[2])
        agg == {[transaction_no |-> k[1], tc_commodity |-> k[2],
                 totals |-> Some(Sum([i \in Indices(group(k)) |->
                                        group(k)[i].tc_quantity]))] :
                   k \in keys}
    IN {g \in agg : g.totals # Some(0)}

\* verify.rs 24-29: filter(tc_commodity not null), group_by(transaction_no,
\* tc_commodity), totals = sum(tc_quantity) * -1, filter(totals != 0)
Totals(df) ==
    LET rows == SelectSeq(df, LAMBDA r : r.tc_commodity # None)
        keys == {<<rows[i].transaction_no, rows[i].tc_commodity>> :
                    i \in Indices(rows)}
        group(k) == SelectSeq(rows, LAMBDA r : r.transaction_no = k[1]
                                              /\ r.tc_commodity = k[2])
        agg == {[transaction_no |-> k[1], tc_commodity |-> k[2],
                 totals |-> Some(Sum([i \in Indices(group(k)) |->
                                        group(k)[i].tc_quantity]) * (-1))] :
                   k \in keys}
    IN {g \in agg : g.totals # Some(0)}

\* mynum with the rank taken in descending order
mynum_Descending(g, rows) ==
    Cardinality({h.tc_commodity : h \in
        {x \in rows : /\ x.transaction_no = g.transaction_no
                      /\ CommodityLess(g.tc_commodity[1], x.tc_commodity[1])}})
    + 1

\* verify.rs 34-43: dense rank of tc_commodity, ascending, over transaction_no
mynum(g, rows) ==
    Cardinality({h.tc_commodity : h \in
        {x \in rows : /\ x.transaction_no = g.transaction_no
                      /\ CommodityLess(x.tc_commodity[1], g.tc_commodity[1])}})
    + 1

\* Residuals without the filter(mynum == 1)
Residuals_AllRanks(df) == Totals(df)

\* verify.rs 30-45: the residual rows kept for the join
Residuals(df) == {g \in Totals(df) : mynum(g, Totals(df)) = 1}

\* verify.rs 52-63: the projection of one joined row (g the residual side,
\* p the posting side, whose tc_commodity the join names tc_commodity_right)
FinalRow(g, p) ==
    [statement_no |-> p.statement_no, transaction_no |-> p.transaction_no,
     file_no |-> p.file_no, start |-> p.start, account |-> p.account,
     cp_commodity_final |-> coalesce(p.cp_commodity, g.tc_commodity),
     cp_quantity_final |-> coalesce(p.cp_quantity, g.totals),
     tc_commodity_final |-> coalesce(p.tc_commodity, g.tc_commodity),
     tc_quantity_final |-> coalesce(p.tc_quantity, g.totals)]

\* the residual side of a posting that matches no residual row
NullResidual == [tc_commodity |-> None, totals |-> None]

\* RightJoin as an inner join: a posting without a residual row is dropped
RightJoin_Inner(residuals, df) ==
    Flatten([i \in Indices(df) |->
        LET matches == {g \in residuals :
                           g.transaction_no = df[i].transaction_no}
        IN IF matches = {} THEN <<>>
           ELSE LET m == SetToSeq(matches)
                IN [j \in Indices(m) |-> FinalRow(m[j], df[i])]])

\* verify.rs 46-51: right join on transaction_no: every posting row is kept,
\* once per matching residual row, or once with a null residual side
RightJoin(residuals, df) ==
    Flatten([i \in Indices(df) |->
        LET matches == {g \in residuals :
                           g.transaction_no = df[i].transaction_no}
        IN IF matches = {} THEN <<FinalRow(NullResidual, df[i])>>
           ELSE LET m == SetToSeq(matches)
                IN [j \in Indices(m) |-> FinalRow(m[j], df[i])]])

\* verify.rs 21-65
FinalDf(df) == RightJoin(Residuals(df), df)

\* ErrorsDf that keeps only the groups with a positive total
ErrorsDf_PositiveOnly(final) ==
    LET keys == {<<final[i].transaction_no, final[i].tc_commodity_final>> :
                    i \in Indices(final)}
        group(k) == SelectSeq(final, LAMBDA r :
                        /\ r.transaction_no = k[1]
                        /\ r.tc_commodity_final = k[2])
        agg == {[transaction_no |-> k[1], tc_commodity_final |-> k[2],
                 totals |-> Sum([i \in Indices(group(k)) |->
                                   group(k)[i].tc_quantity_final])] :
                   k \in keys}
    IN {e \in agg : e.totals > 0 \/ e.tc_commodity_final = None}

\* ErrorsDf without the test for a null commodity
ErrorsDf_NoNullTest(final) ==
    LET keys == {<<final[i].transaction_no, final[i].tc_commodity_final>> :
                    i \in Indices(final)}
        group(k) == SelectSeq(final, LAMBDA r :
                        /\ r.transaction_no = k[1]
                        /\ r.tc_commodity_final = k[2])
        agg == {[transaction_no |-> k[1], tc_commodity_final |-> k[2],
                 totals |-> Sum([i \in Indices(group(k)) |->
                                   group(k)[i].tc_quantity_final])] :
                   k \in keys}
    IN {e \in agg : e.totals # 0}

\* verify.rs 67-76: group_by(transaction_no, tc_commodity_final),
\* totals = sum(tc_quantity_final), filter(totals != 0 or commodity null)
ErrorsDf(final) ==
    LET keys == {<<final[i].transaction_no, final[i].tc_commodity_final>> :
                    i \in Indices(final)}
        group(k) == SelectSeq(final, LAMBDA r :
                        /\ r.transaction_no = k[1]
                        /\ r.tc_commodity_final = k[2])
        agg == {[transaction_no |-> k[1], tc_commodity_final |-> k[2],
                 totals |-> Sum([i \in Indices(group(k)) |->
                                   group(k)[i].tc_quantity_final])] :
                   k \in keys}
    IN {e \in agg : e.totals # 0 \/ e.tc_commodity_final = None}

----------------------------------------------------------------------------
(* Strings.  An account is a str, modelled as the sequence of its          *)
(* characters, so that split, join, starts_with and the order of a sort    *)
(* are computed on the text.                                               *)

Str_Assets_a == <<"A", "s", "s", "e", "t", "s", ":", "a">>

Str_Assets_a_b == <<"A", "s", "s", "e", "t", "s", ":", "a", ":", "b">>

Str_Assets_ab == <<"A", "s", "s", "e", "t", "s", ":", "a", "b">>

Str_Income_a_b == <<"I", "n", "c", "o", "m", "e", ":", "a", ":", "b">>

\* the accounts the posting lines of the model name (parse.rs full_account:
\* a base account name, then one or more sub-account names)
AccountNames == {Str_Assets_a, Str_Assets_a_b, Str_Assets_ab, Str_Income_a_b}

\* the characters of the model in the order of their byte values
Alphabet ==
    <<":", "A", "I", "a", "b", "c", "e", "m", "n", "o", "s", "t">>

Byte(ch) == CHOOSE i \in Indices(Alphabet) : Alphabet[i] = ch

\* Ord for str: lexicographic on the bytes, a proper prefix is smaller
RECURSIVE StrLess(_, _)
StrLess(a, b) ==
    IF b = <<>> THEN FALSE
    ELSE IF a = <<>> THEN TRUE
    ELSE IF Head(a) = Head(b) THEN StrLess(Tail(a), Tail(b))
    ELSE Byte(Head(a)) < Byte(Head(b))

\* str::starts_with: string begins with prefix
StartsWith(string, prefix) ==
    /\ Len(prefix) <= Len(string)
    /\ SubSeq(string, 1, Len(prefix)) = prefix

\* str.split(":"): the segments between the separators (n separators give
\* n + 1 segments, empty ones included)
RECURSIVE Split(_)
Split(string) ==
    IF \A i \in Indices(string) : string[i] # ":" THEN <<string>>
    ELSE LET i == CHOOSE k \in Indices(string) :
                      /\ string[k] = ":"
                      /\ \A j \in 1..(k - 1) : string[j] # ":"
         IN <<SubSeq(string, 1, i - 1)>>
                \o Split(SubSeq(string, i + 1, Len(string)))

\* list.join(":")
RECURSIVE Join(_)
Join(segments) ==
    IF segments = <<>> THEN <<>>
    ELSE IF Len(segments) = 1 THEN segments[1]
    ELSE segments[1] \o <<":">> \o Join(Tail(segments))

\* the greatest string of a non-empty set
MaxStr(S) == CHOOSE x \in S : \A y \in S : ~StrLess(x, y)

\* the least string of a non-empty set
MinStr(S) == CHOOSE x \in S : \A y \in S : ~StrLess(y, x)

\* sort(["account"], with_order_descending(true)) of a column of distinct
\* strings
RECURSIVE SortDescending(_)
SortDescending(S) ==
    IF S = {} THEN <<>>
    ELSE <<MaxStr(S)>> \o SortDescending(S \ {MaxStr(S)})

----------------------------------------------------------------------------
(* The Account Hierarchy Builder (verify.rs accounts, lines 99-163)        *)

\* verify.rs 99-105: the distinct accounts, each split on ":"
AccountLists(final) == {Split(final[i].account) : i \in Indices(final)}

\* the loop that stops after its first round: only the parents are added
Ancestors_ParentsOnly(lists, n) ==
    IF n > 1 THEN {}
    ELSE {SubSeq(l, 1, Len(l) - n) : l \in {x \in lists : Len(x) > n}}

\* verify.rs 111-141: round n appends, for every list longer than n, its
\* first (length - n) segments; the loop ends with the first empty round
RECURSIVE Ancestors(_, _)
Ancestors(lists, n) ==
    LET a == {SubSeq(l, 1, Len(l) - n) : l \in {x \in lists : Len(x) > n}}
    IN IF a = {} THEN {} ELSE a \cup Ancestors(lists, n + 1)

\* verify.rs 143-163: unique, join with ":", sort
Closure(final) ==
    LET lists == AccountLists(final)
        accounts_series == lists \cup Ancestors(lists, 1)
    IN SortDescending({Join(l) : l \in accounts_series})

\* verify.rs accounts, up to the account list it builds
accounts ==
    /\ pc = "verified"
    /\ accounts_df' = Closure(final_df)
    /\ pc' = "accounts"
    /\ UNCHANGED <<fs, frames, stateVars, accumulators, ioVars, final_df, errors_df,
                   balances_df, issued>>

----------------------------------------------------------------------------
(* The Balance Reporter: LedgerState::get_balances_df (state/report.rs,    *)
(* datafusion) and LedgerParserState::balances (report.rs, polars).  A     *)
(* basis is "tc" or "cp": the pair of columns the report is made on.       *)

CommodityOf(r, basis) ==
    IF basis = "tc" THEN r.tc_commodity_final ELSE r.cp_commodity_final

QuantityOf(r, basis) ==
    IF basis = "tc" THEN r.tc_quantity_final ELSE r.cp_quantity_final

\* state/report.rs 35-42, report.rs 18-30: group by (account, commodity),
\* sum the quantity
AccountTotals(final, basis) ==
    LET keys == {<<final[i].account, CommodityOf(final[i], basis)>> :
                    i \in Indices(final)}
        group(k) == SelectSeq(final, LAMBDA r :
                        r.account = k[1] /\ CommodityOf(r, basis) = k[2])
    IN {[account |-> k[1], commodity |-> k[2],
         total |-> Sum([i \in Indices(group(k)) |->
                          QuantityOf(group(k)[i], basis)])] : k \in keys}

\* the distinct commodities of a column
CommoditiesIn(final, basis) ==
    {CommodityOf(final[i], basis) : i \in Indices(final)}

\* the cross joins and the inner join with the totals on (account_right,
\* commodity): account, commodity and the totals row of account_right.  A
\* null commodity equals nothing in a join.
Joined(final, closure, basis) ==
    {j \in [account : {closure[i] : i \in Indices(closure)},
            commodity : CommoditiesIn(final, basis) \ {None},
            totals : AccountTotals(final, basis)] :
        /\ j.totals.account \in {closure[i] : i \in Indices(closure)}
        /\ j.totals.commodity = j.commodity}

\* the final aggregate: group by (account, commodity), sum the totals
Aggregate(joined) ==
    {[account |-> k[1], commodity |-> k[2],
      total |-> SumOverSet({j \in joined : j.account = k[1]
                                            /\ j.commodity = k[2]})] :
        k \in {<<j.account, j.commodity>> : j \in joined}}

RowLess(r1, r2) ==
    \/ StrLess(r1.account, r2.account)
    \/ /\ r1.account = r2.account
       /\ CommodityLess(r1.commodity[1], r2.commodity[1])

\* sort on (account ascending, commodity ascending)
RECURSIVE SortRows(_)
SortRows(S) ==
    IF S = {} THEN <<>>
    ELSE LET m == CHOOSE x \in S : \A y \in S : ~RowLess(y, x)
         IN <<m>> \o SortRows(S \ {m})

\* sort on account ascending alone: rows of one account come in the order
\* the group_by happened to produce; first(a) tells whether the rows of
\* account a come with the commodities ascending
RECURSIVE SortByAccount(_, _)
SortByAccount(S, first) ==
    IF S = {} THEN <<>>
    ELSE LET a == MinStr({x.account : x \in S})
             rows == SortRows({x \in S : x.account = a})
             rev == [i \in Indices(rows) |-> rows[Len(rows) + 1 - i]]
         IN (IF first[a] THEN rows ELSE rev)
                \o SortByAccount({x \in S : x.account # a}, first)

\* state/report.rs 26-88: MATCH = starts_with(col(ACCOUNT), col(ACCOUNT_RIGHT))
get_balances_df(final, closure, basis) ==
    SortRows(Aggregate({j \in Joined(final, closure, basis) :
                           StartsWith(j.account, j.totals.account)}))

\* report.rs 65-96 (and 32-61 for "tc"): MATCH =
\* col(ACCOUNT_RIGHT).str().starts_with(col(ACCOUNT))
balances_rows(final, closure, basis) ==
    Aggregate({j \in Joined(final, closure, basis) :
                  StartsWith(j.totals.account, j.account)})

\* state/report.rs 16-19
tc_balances ==
    /\ pc = "accounts"
    /\ balances_df' = get_balances_df(final_df, accounts_df, "tc")
    /\ pc' = "tc_balances"
    /\ UNCHANGED <<fs, frames, stateVars, accumulators, ioVars, final_df, errors_df,
                   accounts_df, issued>>

\* state/report.rs 21-24
cp_balances ==
    /\ pc = "accounts"
    /\ balances_df' = get_balances_df(final_df, accounts_df, "cp")
    /\ pc' = "cp_balances"
    /\ UNCHANGED <<fs, frames, stateVars, accumulators, ioVars, final_df, errors_df,
                   accounts_df, issued>>

\* report.rs 17-97: the frame returned is cp_totals_df
balances ==
    /\ pc = "accounts"
    /\ LET S == balances_rows(final_df, accounts_df, "cp")
       IN \E first \in [{x.account : x \in S} -> BOOLEAN] :
              balances_df' = SortByAccount(S, first)
    /\ pc' = "balances"
    /\ UNCHANGED <<fs, frames, stateVars, accumulators, ioVars, final_df, errors_df,
                   accounts_df, issued>>

\* verify.rs verify, run on the postings the parse accumulated
verify ==
    /\ pc = "parsed"
    /\ final_df' = FinalDf(postings)
    /\ errors_df' = ErrorsDf(FinalDf(postings))
    /\ pc' = "verified"
    /\ UNCHANGED <<fs, frames, stateVars, accumulators, ioVars, accounts_df,
                   balances_df, issued>>

----------------------------------------------------------------------------
(* The pipeline *)

Init ==
    /\ fs = <<>>
    /\ pc = "start"
    /\ frames = <<>>
    /\ SetStateInit
    /\ transactions = <<>> /\ postings = <<>> /\ verifications = <<>>
    /\ includes = <<>> /\ informationals = <<>>
    /\ final_df = <<>> /\ errors_df = {}
    /\ accounts_df = <<>> /\ balances_df = <<>>
    /\ issued = <<>>
    /\ line_count = 0 /\ rdr = <<>> /\ stdout = <<>>

Next ==
    \/ bean
    \/ open_statement
    \/ event_statement
    \/ transaction_header
    \/ posting
    \/ other_statement
    \/ include_statement
    \/ include_finished
    \/ include_failed
    \/ parse_filename_failed
    \/ parse_filename_done

Spec == Init /\ [][Next]_vars

----------------------------------------------------------------------------
(* The parser, and a caller of the LedgerState API that calls statement_no  *)
(* or finished_include on the LedgerState as new() built it                *)

\* byte offsets such a caller passes
Offsets == {0, TotalBytes(<<HeaderLine>>)}

\* state.rs statement_no called on the new LedgerState
statement_no_on_new ==
    /\ pc = "start"
    /\ \E start \in Offsets :
          IF CannotAdvance(State, start) THEN Panic
          ELSE LET s == StatementNo(State, start) IN
               /\ SetState(s)
               /\ issued' = Append(issued, [no |-> s.statement_no,
                                            by |-> "caller"])
               /\ UNCHANGED <<fs, pc, frames, accumulators, dfVars, ioVars>>

\* state.rs finished_include called on the new LedgerState
finished_include_on_new ==
    /\ pc = "start"
    /\ \E n \in Offsets :
          IF CannotAdvance(State, n) THEN Panic
          ELSE /\ SetState(finished_include(State, n))
               /\ UNCHANGED <<fs, pc, frames, accumulators, dfVars, ioVars, issued>>

NextCalls ==
    \/ Next
    \/ statement_no_on_new
    \/ finished_include_on_new

SpecCalls == Init /\ [][NextCalls]_vars

----------------------------------------------------------------------------
(* Parse and balance one beanfile of transactions *)

\* the quantity-commodity clause and the @@ clause of the posting lines
Clauses ==
    {<<None, None>>,
     <<<<1, "USD">>, None>>, <<<<-1, "USD">>, None>>, <<<<2, "USD">>, None>>,
     <<<<1, "AAPL">>, None>>, <<<<-1, "AAPL">>, None>>,
     <<<<1, "AAPL">>, <<1, "USD">>>>, <<<<1, "AAPL">>, <<-1, "USD">>>>,
     <<None, <<1, "USD">>>>}

PostingLines == {PostingLine("Assets:A", cl[1], cl[2]) : cl \in Clauses}

Bodies(n) == UNION {[1..k -> PostingLines] : k \in 1..n}

\* one or two transactions with at most MaxPostings postings in all
Beanfiles ==
    {<<HeaderLine>> \o b : b \in Bodies(MaxPostings)}
    \cup UNION {{<<HeaderLine>> \o b1 \o <<HeaderLine>> \o b2 :
                    b1 \in [1..k -> PostingLines],
                    b2 \in Bodies(MaxPostings - k)} :
                k \in 1..(MaxPostings - 1)}

InitLedger ==
    /\ fs \in {(MainPath :> c) : c \in Beanfiles}
    /\ pc = "start"
    /\ frames = <<>>
    /\ SetStateInit
    /\ transactions = <<>> /\ postings = <<>> /\ verifications = <<>>
    /\ includes = <<>> /\ informationals = <<>>
    /\ final_df = <<>> /\ errors_df = {}
    /\ accounts_df = <<>> /\ balances_df = <<>>
    /\ issued = <<>>
    /\ line_count = 0 /\ rdr = <<>> /\ stdout = <<>>

NextLedger ==
    \/ bean
    \/ transaction_header
    \/ posting
    \/ parse_filename_done
    \/ verify

SpecLedger == InitLedger /\ [][NextLedger]_vars

----------------------------------------------------------------------------
(* Parse, balance and report one transaction on several accounts *)

MaxReportPostings == 2   \* postings of the reported transaction

\* "  <account>" followed by the optional clauses
AccountLine(account, cp, tc) ==
    Line("posting", 2 + Len(account) + (IF cp = None THEN 0 ELSE 6)
                       + (IF tc = None THEN 0 ELSE 9), FALSE, <<>>, account,
         cp, tc)

ReportClauses ==
    {<<None, None>>, <<<<1, "USD">>, None>>, <<<<-2, "USD">>, None>>,
     <<<<1, "AAPL">>, None>>, <<<<1, "AAPL">>, <<2, "USD">>>>}

ReportLines ==
    {AccountLine(a, cl[1], cl[2]) : a \in AccountNames, cl \in ReportClauses}

ReportBeanfiles ==
    {<<HeaderLine>> \o b :
        b \in UNION {[1..k -> ReportLines] : k \in 1..MaxReportPostings}}

InitReport ==
    /\ fs \in {(MainPath :> c) : c \in ReportBeanfiles}
    /\ pc = "start"
    /\ frames = <<>>
    /\ SetStateInit
    /\ transactions = <<>> /\ postings = <<>> /\ verifications = <<>>
    /\ includes = <<>> /\ informationals = <<>>
    /\ final_df = <<>> /\ errors_df = {}
    /\ accounts_df = <<>> /\ balances_df = <<>>
    /\ issued = <<>>
    /\ line_count = 0 /\ rdr = <<>> /\ stdout = <<>>

NextReport ==
    \/ bean
    \/ transaction_header
    \/ posting
    \/ parse_filename_done
    \/ verify
    \/ accounts
    \/ tc_balances
    \/ cp_balances
    \/ balances

SpecReport == InitReport /\ [][NextReport]_vars

----------------------------------------------------------------------------
(* The importers (ledger-rs-csv, ledger-rs-qfx).  main.rs runs an importer *)
(* on a LedgerState as new() built it; rdr holds the rows the csv reader   *)
(* has still to return, a row that does not deserialize being BadRow.  A   *)
(* Position is <<quantity, commodity>>, an InterPost is <<account, cp,     *)
(* tc>> with cp and tc a Position or None.  A date is a day number, and    *)
(* the text of a date column is the result of parsing it: None when        *)
(* NaiveDate::parse_from_str returns Err.                                  *)

\* the rows of an import file
MaxRows == 2

BALANCE_ACTION == 1

\* the account names the rj_common macros format, for owner O and account 1
Accounts ==
    [cash |-> "Assets:Investments:O:1:Cash",
     securities |-> "Assets:Investments:O:1:Securities",
     todo |-> "Assets:Investments:O:TODO",
     dividend |-> "Income:Investments:O:Taxable:Dividend",
     fees |-> "Expenses:Investments:O:Fees",
     gainloss |-> "Income:Investments:O:Taxable:GainLoss"]

\* Decimal::set_sign_positive(true)
set_sign_positive(d) == IF d < 0 THEN 0 - d ELSE d

\* Decimal::set_sign_negative(true)
set_sign_negative(d) == IF d > 0 THEN 0 - d ELSE d

\* rj_decimal::reverse_sign
reverse_sign(d) ==
    IF d >= 0 THEN set_sign_negative(d) ELSE set_sign_positive(d)

BadRow == [ok |-> FALSE]

Dates == {1, 2}

\* what a reader may return for a file whose rows are drawn from rows
RowSeqs(rows) == UNION {[1..k -> rows] : k \in 0..MaxRows}

\* cash_transaction of the three csv importers, given get_cash_position
cash_transaction(cash_p, cash, acct) ==
    <<<<cash, cash_p, None>>, <<acct, None, None>>>>

\* the PostingParams the importers build from an InterPost
ImportedPosting(posno, transno, post) ==
    [statement_no |-> posno, transaction_no |-> transno, file_no |-> 0,
     start |-> 0, end |-> 0, account |-> post[1],
     cp_quantity |-> OptQuantity(post[2]),
     cp_commodity |-> OptCommodity(post[2]),
     tc_quantity |-> OptQuantity(post[3]),
     tc_commodity |-> OptCommodity(post[3])]

\* the end of store_us_transaction, store_transaction and
\* store_closed_transaction: one fetch_add for the row, and for a row with
\* postings the Header with that number, then one fetch_add per posting.
\* A file of MaxRows rows leaves the counter far from the end of the u32
\* range, where fetch_add wraps.
Store(posts, bkdate) ==
    /\ line_count' = line_count + 1 + Len(posts)
    /\ IF Len(posts) = 0 THEN UNCHANGED <<transactions, postings>>
       ELSE /\ transactions' = Append(transactions,
                   [statement_no |-> line_count, file_no |-> 0, start |-> 0,
                    end |-> 0, date |-> bkdate])
            /\ postings' = postings \o
                   [i \in 1..Len(posts) |->
                       ImportedPosting(line_count + i, line_count,
                                       posts[i])]

\* the Err(e) arm of the loop over rdr.deserialize(): the error is printed
deserialize_error ==
    /\ pc \in {"rj_usa", "rj_cdn_activites", "rj_cdn_closed",
               "rj_cdn_holdings"}
    /\ rdr # <<>> /\ ~Head(rdr).ok
    /\ rdr' = Tail(rdr)
    /\ stdout' = Append(stdout, [line |-> "error"])
    /\ UNCHANGED <<fs, pc, frames, stateVars, accumulators, dfVars, issued,
                   line_count>>

\* the loop over the rows is over and the process function returns Ok: the
\* records are accumulated, main.rs goes on to verify
import_done ==
    /\ pc \in {"rj_usa", "rj_cdn_activites", "rj_cdn_closed",
               "rj_cdn_holdings"}
    /\ rdr = <<>>
    /\ pc' = "parsed"
    /\ UNCHANGED <<fs, frames, stateVars, accumulators, dfVars, issued,
                   ioVars>>

(* rj_usa.rs *)

USDescriptions ==
    {"ADVISORY FEES", "BUY ", "SELL ", "YOUR ASSET TRANSFERRED", "INTEREST"}

USRows ==
    {[ok |-> TRUE, description |-> d, symbol |-> s, amount |-> -2,
      quantity |-> 4, settled |-> t] :
        d \in USDescriptions, s \in {"", "AAPL"},
        t \in {None} \cup {Some(x) : x \in Dates}}
    \cup {BadRow}

us_cash_position(t) == <<t.amount, "USD">>

\* get_sec_position for a quantity column that parses
us_sec_position(t) ==
    <<t.quantity, IF t.symbol = "" THEN "UNKNOWNSEC" ELSE t.symbol>>

us_cost(t) == <<set_sign_positive(t.amount), "USD">>

us_transfer(t) ==
    (IF t.symbol = "" THEN <<<<Accounts.cash, us_cash_position(t), None>>>>
     ELSE <<<<Accounts.securities, us_sec_position(t), us_cost(t)>>>>)
    \o <<<<Accounts.todo, None, None>>>>

us_buy(t) ==
    IF t.symbol # ""
    THEN <<<<Accounts.securities, us_sec_position(t), us_cost(t)>>,
           <<Accounts.cash, us_cash_position(t), None>>>>
    ELSE <<>>

us_sell(t) ==
    IF t.symbol # ""
    THEN <<<<Accounts.securities,
             <<set_sign_negative(us_sec_position(t)[1]),
               us_sec_position(t)[2]>>, None>>,
           <<Accounts.cash, us_cash_position(t), None>>,
           <<Accounts.gainloss, None, None>>>>
    ELSE <<>>

\* the postings of a row by the start of its description; a settlement
\* date that does not parse empties them
us_posts(t) ==
    IF t.settled = None THEN <<>>
    ELSE CASE t.description = "ADVISORY FEES" ->
                 cash_transaction(us_cash_position(t), Accounts.cash, Accounts.fees)
           [] t.description = "BUY " -> us_buy(t)
           [] t.description = "SELL " -> us_sell(t)
           [] t.description = "YOUR ASSET TRANSFERRED" -> us_transfer(t)
           [] OTHER -> <<>>

\* main.rs rj_usa: LedgerState::new, then process_us_transaction opens the
\* reader
rj_usa ==
    /\ pc = "start"
    /\ rdr' \in RowSeqs(USRows)
    /\ pc' = "rj_usa"
    /\ UNCHANGED <<fs, frames, stateVars, accumulators, dfVars, issued,
                   line_count, stdout>>

store_us_transaction ==
    /\ pc = "rj_usa" /\ rdr # <<>> /\ Head(rdr).ok
    /\ LET t == Head(rdr)
       IN Store(us_posts(t), IF t.settled = None THEN 0 ELSE t.settled[1])
    /\ rdr' = Tail(rdr)
    /\ UNCHANGED <<fs, pc, frames, stateVars, verifications, includes,
                   informationals, dfVars, issued, stdout>>

(* rj_cdn.rs *)

\* the symbols file: description -> symbol
Symbols == [d \in {"APPLE INC"} |-> "AAPL"]

CdnTranTypes ==
    {"Buy", "CashReceipt", "Sell", "ReinvestmentDividend",
     "MFReturnOfCapital"}

CdnRows ==
    {[ok |-> TRUE, tran_types |-> k, description |-> "APPLE INC",
      price |-> 1, quantity |-> 4, amount |-> -2, settled |-> t] :
        k \in CdnTranTypes, t \in {None, Some(1)}}
    \cup {[ok |-> TRUE, tran_types |-> "InternalTransfer",
           description |-> "APPLE INC", price |-> 1, quantity |-> q,
           amount |-> a, settled |-> Some(1)] : q \in {0, 4}, a \in {0, -2}}
    \cup {BadRow}

cdn_cash_position(t) == <<t.amount, "USD">>

cdn_sec_position(t) ==
    <<t.quantity, IF t.description \in DOMAIN Symbols
                  THEN Symbols[t.description] ELSE "UNKNOENSEC">>

cdn_cost(t) == <<set_sign_positive(t.price * t.quantity), "USD">>

cdn_transfer(t) ==
    (IF t.amount # 0 THEN <<<<Accounts.cash, cdn_cash_position(t), None>>>>
     ELSE <<>>)
    \o (IF t.quantity # 0
        THEN <<<<Accounts.securities, cdn_sec_position(t), cdn_cost(t)>>>>
        ELSE <<>>)
    \o <<<<Accounts.todo, None, None>>>>

cdn_buy(t) ==
    <<<<Accounts.securities, cdn_sec_position(t),
        <<set_sign_positive(t.amount), "USD">>>>,
      <<Accounts.cash, cdn_cash_position(t), None>>>>

cdn_sell(t) ==
    <<<<Accounts.securities, cdn_sec_position(t), None>>,
      <<Accounts.cash, cdn_cash_position(t), None>>,
      <<Accounts.gainloss, None, None>>>>

reinvestment(t) ==
    <<<<Accounts.securities, cdn_sec_position(t), cdn_cost(t)>>,
      <<Accounts.dividend, <<reverse_sign(cdn_cost(t)[1]), cdn_cost(t)[2]>>,
        None>>>>

cdn_posts(t) ==
    CASE t.tran_types = "Buy" -> cdn_buy(t)
      [] t.tran_types = "CashReceipt" ->
            cash_transaction(cdn_cash_position(t), Accounts.cash, Accounts.todo)
      [] t.tran_types = "Sell" -> cdn_sell(t)
      [] t.tran_types = "InternalTransfer" -> cdn_transfer(t)
      [] t.tran_types = "ReinvestmentDividend" -> reinvestment(t)
      [] t.tran_types = "MFReturnOfCapital" -> <<>>

\* main.rs rj_cdn_activites: LedgerState::new, then process_activites loads
\* the symbols and opens the reader
rj_cdn_activites ==
    /\ pc = "start"
    /\ rdr' \in RowSeqs(CdnRows)
    /\ pc' = "rj_cdn_activites"
    /\ UNCHANGED <<fs, frames, stateVars, accumulators, dfVars, issued,
                   line_count, stdout>>

\* store_transaction: the settlement date is unwrapped before anything else
store_transaction ==
    /\ pc = "rj_cdn_activites" /\ rdr # <<>> /\ Head(rdr).ok
    /\ IF Head(rdr).settled = None THEN Panic
       ELSE /\ Store(cdn_posts(Head(rdr)), Head(rdr).settled[1])
            /\ rdr' = Tail(rdr)
            /\ UNCHANGED <<fs, pc, frames, stateVars, verifications,
                           includes, informationals, dfVars, issued, stdout>>

(* rj_cdn_closed.rs *)

ClosedRows ==
    {[ok |-> TRUE, tran_type |-> k, symbol |-> s, quantity |-> 4,
      cost |-> 5, amount |-> 2, settled |-> t] :
        k \in {"ATI", "BUY", "CN", "SEL"}, s \in {"", "AAPL"},
        t \in {None, Some(1)}}
    \cup {[ok |-> TRUE, tran_type |-> "DVR", symbol |-> "AAPL",
           quantity |-> 4, cost |-> c, amount |-> a, settled |-> Some(1)] :
             c \in {0, 5}, a \in {0, 2}}
    \cup {BadRow}

closed_cash_position(t) == <<reverse_sign(t.amount), "USD">>

closed_sec_position(t) ==
    <<t.quantity, IF t.symbol = "" THEN "UNKNOWNSEC" ELSE t.symbol>>

closed_cost(t) == <<set_sign_positive(t.cost), "USD">>

closed_transfer(t) ==
    (IF t.symbol = "" THEN <<<<Accounts.cash, closed_cash_position(t), None>>>>
     ELSE <<<<Accounts.securities, closed_sec_position(t), closed_cost(t)>>>>)
    \o <<<<Accounts.todo, None, None>>>>

closed_buy(t) ==
    IF t.symbol # ""
    THEN <<<<Accounts.securities, closed_sec_position(t), closed_cost(t)>>,
           <<Accounts.cash, closed_cash_position(t), None>>>>
    ELSE <<>>

dividend(t) ==
    IF t.amount = 0
    THEN IF t.cost # 0
         THEN <<<<Accounts.securities, closed_sec_position(t), closed_cost(t)>>,
                <<Accounts.dividend, None, None>>>>
         ELSE <<>>
    ELSE cash_transaction(closed_cash_position(t), Accounts.cash, Accounts.dividend)

closed_sell(t) ==
    IF t.symbol # ""
    THEN <<<<Accounts.securities, closed_sec_position(t), None>>,
           <<Accounts.cash, closed_cash_position(t), None>>,
           <<Accounts.gainloss, None, None>>>>
    ELSE <<>>

closed_posts(t) ==
    CASE t.tran_type = "ATI" -> closed_transfer(t)
      [] t.tran_type = "BUY" -> closed_buy(t)
      [] t.tran_type = "CN" ->
            cash_transaction(closed_cash_position(t), Accounts.cash, Accounts.todo)
      [] t.tran_type = "DVR" -> dividend(t)
      [] t.tran_type = "SEL" -> closed_sell(t)

\* main.rs rj_cdn_closed: LedgerState::new, then process_closed_acct_trans
\* opens the commodity file and the reader
rj_cdn_closed ==
    /\ pc = "start"
    /\ rdr' \in RowSeqs(ClosedRows)
    /\ pc' = "rj_cdn_closed"
    /\ UNCHANGED <<fs, frames, stateVars, accumulators, dfVars, issued,
                   line_count, stdout>>

\* store_closed_transaction: the settlement date is unwrapped before
\* anything else; the line appended to the commodity file is not modelled
store_closed_transaction ==
    /\ pc = "rj_cdn_closed" /\ rdr # <<>> /\ Head(rdr).ok
    /\ IF Head(rdr).settled = None THEN Panic
       ELSE /\ Store(closed_posts(Head(rdr)), Head(rdr).settled[1])
            /\ rdr' = Tail(rdr)
            /\ UNCHANGED <<fs, pc, frames, stateVars, verifications,
                           includes, informationals, dfVars, issued, stdout>>

(* rj_cdn.rs, the holdings *)

HoldingRows ==
    {[ok |-> TRUE, holding |-> h, fund |-> f, symbol |-> "AAPL",
      quantity |-> 4] : h \in {"CASH", "APPLE INC"}, f \in {"", "CAD"}}
    \cup {BadRow}

\* main.rs rj_cdn_holdings: LedgerState::new, then compile_holdings opens
\* the reader
rj_cdn_holdings ==
    /\ pc = "start"
    /\ rdr' \in RowSeqs(HoldingRows)
    /\ pc' = "rj_cdn_holdings"
    /\ UNCHANGED <<fs, frames, stateVars, accumulators, dfVars, issued,
                   line_count, stdout>>

\* store_balance, for the bkdate 1 and the currency USD of the command line
store_balance ==
    /\ pc = "rj_cdn_holdings" /\ rdr # <<>> /\ Head(rdr).ok
    /\ LET t == Head(rdr)
           cash == t.holding = "CASH"
       IN verifications' = Append(verifications,
              [statement_no |-> line_count, file_no |-> 0, start |-> 0,
               end |-> 0, date |-> 1, action |-> BALANCE_ACTION,
               account |-> IF cash THEN Accounts.cash ELSE Accounts.securities,
               quantity |-> Some(t.quantity),
               commodity |-> Some(IF cash
                                  THEN (IF t.fund # "" THEN t.fund ELSE "USD")
                                  ELSE t.symbol)])
    /\ line_count' = line_count + 1
    /\ rdr' = Tail(rdr)
    /\ UNCHANGED <<fs, pc, frames, stateVars, transactions, postings,
                   includes, informationals, dfVars, issued, stdout>>

(* qfx.rs *)

\* the InterTrans records to_bk may collect from a file
InterTransSet ==
    {[date |-> d, account |-> "1234", quantity |-> q, commodity |-> "USD"] :
        d \in Dates, q \in {-2, 3}}

\* main.rs read_qfx without a beanfile to compare with: LedgerState::new and
\* parse_qfx_file, whose error read_qfx drops.  count is the local counter
\* of parse_qfx_file.
read_qfx ==
    /\ pc = "start"
    /\ \/ \* process_qfx or to_bk returns Err
          UNCHANGED <<transactions, postings, verifications>>
       \/ \E ts \in UNION {[1..k -> InterTransSet] : k \in 0..MaxRows},
             bs \in UNION {[1..k -> {[date |-> 2, account |-> "1234",
                                      quantity |-> 1, commodity |-> "USD"]}] :
                           k \in 0..MaxRows} :
            /\ transactions' = transactions \o
                   [count \in 1..Len(ts) |->
                       [statement_no |-> count, file_no |-> 0, start |-> 0,
                        end |-> 0, date |-> ts[count].date]]
            /\ postings' = postings \o
                   [count \in 1..Len(ts) |->
                       [statement_no |-> count, transaction_no |-> count,
                        file_no |-> 0, start |-> 0, end |-> 0,
                        account |-> ts[count].account,
                        cp_quantity |-> Some(ts[count].quantity),
                        cp_commodity |-> Some(ts[count].commodity),
                        tc_quantity |-> Some(ts[count].quantity),
                        tc_commodity |-> Some(ts[count].commodity)]]
            /\ verifications' = verifications \o
                   [j \in 1..Len(bs) |->
                       [statement_no |-> Len(ts) + j, file_no |-> 0,
                        start |-> 0, end |-> 0, date |-> bs[j].date,
                        action |-> BALANCE_ACTION, account |-> bs[j].account,
                        quantity |-> Some(bs[j].quantity),
                        commodity |-> Some(bs[j].commodity)]]
    /\ pc' = "parsed"
    /\ UNCHANGED <<fs, frames, stateVars, includes, informationals, dfVars,
                   issued, ioVars>>

(* write_transactions (state.rs).  transactions_df and postings_df are the *)
(* Header records and the final postings of verify.  A line of stdout is a *)
(* record of what println! was given; of, on a posting line, is the        *)
(* transaction_no of the row that printed it, which the text does not      *)
(* show.                                                                   *)

\* the left join of the headers with the final postings on
\* statement_no = transaction_no: the rows of one header
JoinedRows(h, final) ==
    LET matches == SelectSeq(final,
                       LAMBDA r : r.transaction_no = h.statement_no)
    IN IF matches = <<>>
       THEN <<[date |-> Some(h.date), transaction_no |-> None,
               statement_no_right |-> None, account |-> None,
               cp_commodity |-> None, cp_quantity |-> None,
               tc_commodity |-> None, tc_quantity |-> None]>>
       ELSE [i \in Indices(matches) |->
               [date |-> Some(h.date),
                transaction_no |-> Some(matches[i].transaction_no),
                statement_no_right |-> Some(matches[i].statement_no),
                account |-> Some(matches[i].account),
                cp_commodity |-> matches[i].cp_commodity_final,
                cp_quantity |-> matches[i].cp_quantity_final,
                tc_commodity |-> matches[i].tc_commodity_final,
                tc_quantity |-> matches[i].tc_quantity_final]]

\* sort(date ascending, statement_no_right ascending), nulls last: the
\* sorted frame, given the indices of the rows still to place.  Rows that
\* tie are rows without a posting, which print the same line.
RECURSIVE SortJoined(_, _)
SortJoined(rows, I) ==
    IF I = {} THEN <<>>
    ELSE LET SortsBefore(r1, r2) ==
                 \/ r1.date[1] < r2.date[1]
                 \/ /\ r1.date = r2.date
                    /\ r1.statement_no_right # None
                    /\ \/ r2.statement_no_right = None
                       \/ r1.statement_no_right[1] < r2.statement_no_right[1]
             m == CHOOSE x \in I :
                     \A y \in I : ~SortsBefore(rows[y], rows[x])
         IN <<rows[m]>> \o SortJoined(rows, I \ {m})

\* the lines the loop prints for the rows from rec on
RECURSIVE Printed(_, _)
Printed(rows, current_transaction_no) ==
    IF rows = <<>> THEN <<>>
    ELSE LET rec == Head(rows)
         IN IF /\ rec.transaction_no # None /\ rec.date # None
               /\ rec.account # None
               /\ rec.cp_commodity # None /\ rec.cp_quantity # None
               /\ rec.tc_commodity # None /\ rec.tc_quantity # None
            THEN LET t_no == rec.transaction_no[1]
                 IN (IF current_transaction_no # t_no
                     THEN <<[line |-> "blank"],
                            [line |-> "header", t_no |-> t_no,
                             date |-> rec.date[1]]>>
                     ELSE <<>>)
                    \o <<[line |-> "posting", of |-> t_no,
                          account |-> rec.account[1],
                          cp |-> <<rec.cp_quantity[1], rec.cp_commodity[1]>>,
                          cost |-> IF rec.cp_commodity = rec.tc_commodity
                                   THEN None
                                   ELSE <<rec.tc_quantity[1],
                                          rec.tc_commodity[1]>>]>>
                    \o Printed(Tail(rows), t_no)
            ELSE <<[line |-> "Nothing"]>>
                    \o Printed(Tail(rows), current_transaction_no)

\* LedgerState::write_transactions: current_transaction_no starts at 0
write_transactions ==
    /\ pc = "verified"
    /\ LET df == Flatten([i \in Indices(transactions) |->
                             JoinedRows(transactions[i], final_df)])
       IN stdout' = stdout \o Printed(SortJoined(df, Indices(df)), 0)
    /\ pc' = "written"
    /\ UNCHANGED <<fs, frames, stateVars, accumulators, dfVars, issued,
                   line_count, rdr>>

\* an importer command of main.rs: the import, verify, write_transactions
NextImport ==
    \/ rj_usa
    \/ store_us_transaction
    \/ rj_cdn_activites
    \/ store_transaction
    \/ rj_cdn_closed
    \/ store_closed_transaction
    \/ rj_cdn_holdings
    \/ store_balance
    \/ read_qfx
    \/ deserialize_error
    \/ import_done
    \/ verify
    \/ write_transactions

SpecImport == Init /\ [][NextImport]_vars

----------------------------------------------------------------------------
(* Statement numbering *)

\* every record emitted so far, whatever its accumulator
Records ==
    {[table |-> "transactions", i |-> i, no |-> transactions[i].statement_no] :
        i \in Indices(transactions)}
    \cup {[table |-> "postings", i |-> i, no |-> postings[i].statement_no] :
        i \in Indices(postings)}
    \cup {[table |-> "verifications", i |-> i,
           no |-> verifications[i].statement_no] : i \in Indices(verifications)}
    \cup {[table |-> "informationals", i |-> i,
           no |-> informationals[i].statement_no] :
        i \in Indices(informationals)}
    \cup {[table |-> "includes", i |-> i, no |-> includes[i].statement_no] :
        i \in Indices(includes)}

NoUnderflow ==
    pc = "parsing" /\ AtLine /\ get_file_no(State) # None
        => ~Underflows(State, r_start)

\* C1: the values returned by successive statement_no() calls are strictly
\* increasing in the order the statements are met in the traversal
C1_StrictlyIncreasing ==
    \A i, j \in Indices(issued) : i < j => issued[i].no < issued[j].no

\* C2: no two emitted records carry the same statement_no
C2_Unique ==
    \A r1, r2 \in Records : r1 # r2 => r1.no # r2.no

\* the headers whose statement_no a posting's transaction_no names
HeadersOf(p) ==
    {h \in Indices(transactions) :
        transactions[h].statement_no = p.transaction_no}

\* C3: after parsing, every posting's transaction_no is the statement_no of
\* exactly one header, emitted before the posting and with a smaller
\* statement_no, and no two headers share a statement_no
C3_Linkage ==
    pc = "parsed" =>
        /\ \A k \in Indices(postings) :
              /\ Cardinality(HeadersOf(postings[k])) = 1
              /\ postings[k].transaction_no < postings[k].statement_no
              /\ \E i, j \in Indices(issued) :
                    /\ i < j
                    /\ issued[i] = [no |-> postings[k].transaction_no,
                                    by |-> "header"]
                    /\ issued[j] = [no |-> postings[k].statement_no,
                                    by |-> "posting"]
        /\ \A g, h \in Indices(transactions) :
              g # h => transactions[g].statement_no # transactions[h].statement_no

----------------------------------------------------------------------------
(* The posting parser and the Balancer: properties *)

\* the posting lines of the root file, in the order they are parsed
SourceLines == SelectSeq(fs[MainPath], LAMBDA l : l.kind = "posting")

\* C4: the legs of a posting for every combination of its two clauses: no
\* @@ clause, tc is the cp pair; an @@ clause, cp is (qty1, com1) and tc is
\* (qty2, com2); neither clause, all four fields are null
C4_PostingLegs ==
    \A k \in Indices(postings) :
        LET l == SourceLines[k]
            p == postings[k]
        IN /\ p.cp_quantity = (IF l.cp = None THEN None ELSE Some(l.cp[1]))
           /\ p.cp_commodity = (IF l.cp = None THEN None ELSE Some(l.cp[2]))
           /\ l.tc = None =>
                 p.tc_quantity = p.cp_quantity /\ p.tc_commodity = p.cp_commodity
           /\ l.tc # None =>
                 p.tc_quantity = Some(l.tc[1]) /\ p.tc_commodity = Some(l.tc[2])
           /\ (l.cp = None /\ l.tc = None) =>
                 /\ p.cp_quantity = None /\ p.cp_commodity = None
                 /\ p.tc_quantity = None /\ p.tc_commodity = None

C4_Witness ==
    /\ pc = "parsed"
    /\ \E i, j, k \in Indices(postings) :
          /\ postings[i].cp_commodity = None /\ postings[i].tc_commodity = None
          /\ postings[j].cp_commodity # None
          /\ postings[j].tc_commodity = postings[j].cp_commodity
          /\ postings[k].cp_commodity # None /\ postings[k].tc_commodity # None
          /\ postings[k].tc_commodity # postings[k].cp_commodity

CommoditySet == {Commodities[i] : i \in Indices(Commodities)}

TransactionNos == {postings[i].transaction_no : i \in Indices(postings)}

RowsOf(t) == {i \in Indices(postings) : postings[i].transaction_no = t}

FinalRowsOf(t) == {j \in Indices(final_df) : final_df[j].transaction_no = t}

\* the input posting a final row was made from
Input(j) ==
    postings[CHOOSE i \in Indices(postings) :
                postings[i].statement_no = final_df[j].statement_no]

NoLegs(p) ==
    /\ p.cp_quantity = None /\ p.cp_commodity = None
    /\ p.tc_quantity = None /\ p.tc_commodity = None

AllLegs(p) ==
    /\ p.cp_quantity # None /\ p.cp_commodity # None
    /\ p.tc_quantity # None /\ p.tc_commodity # None

RECURSIVE SumOver(_, _)
SumOver(I, f) ==
    IF I = {} THEN 0
    ELSE LET i == CHOOSE x \in I : TRUE IN f[i] + SumOver(I \ {i}, f)

\* the sum of the tc quantities written for commodity c in transaction t
TcSum(t, c) ==
    SumOver({i \in RowsOf(t) : /\ postings[i].tc_commodity = Some(c)
                               /\ postings[i].tc_quantity # None},
            [i \in Indices(postings) |->
                IF postings[i].tc_quantity = None THEN 0
                ELSE postings[i].tc_quantity[1]])

\* the sum of the final tc quantities for commodity c in transaction t
FinalTcSum(t, c) ==
    SumOver({j \in FinalRowsOf(t) : /\ final_df[j].tc_commodity_final = Some(c)
                                    /\ final_df[j].tc_quantity_final # None},
            [j \in Indices(final_df) |->
                IF final_df[j].tc_quantity_final = None THEN 0
                ELSE final_df[j].tc_quantity_final[1]])

\* the commodities of transaction t whose tc sum is not zero
Unbalanced(t) == {c \in CommoditySet : TcSum(t, c) # 0}

InErrors(t, oc) ==
    \E e \in errors_df : e.transaction_no = t /\ e.tc_commodity_final = oc

\* C5 as claimed: every final posting has non-null final commodities and
\* quantities
C5_AllFilled ==
    pc = "verified" =>
        \A j \in Indices(final_df) :
            /\ final_df[j].cp_commodity_final # None
            /\ final_df[j].tc_commodity_final # None
            /\ final_df[j].cp_quantity_final # None
            /\ final_df[j].tc_quantity_final # None

\* C5 amended: a final leg is non-null exactly when the posting has that leg
\* or some tc commodity of its transaction has a non-zero sum
C5_FilledIffResidual ==
    pc = "verified" =>
        \A j \in Indices(final_df) :
            LET p == Input(j)
                r == Unbalanced(p.transaction_no) # {}
            IN /\ final_df[j].cp_commodity_final # None
                     <=> (p.cp_commodity # None \/ r)
               /\ final_df[j].cp_quantity_final # None
                     <=> (p.cp_quantity # None \/ r)
               /\ final_df[j].tc_commodity_final # None
                     <=> (p.tc_commodity # None \/ r)
               /\ final_df[j].tc_quantity_final # None
                     <=> (p.tc_quantity # None \/ r)

C5_Witness ==
    /\ pc = "verified"
    /\ \E j \in Indices(final_df) :
          NoLegs(Input(j)) /\ final_df[j].tc_commodity_final # None
    /\ \E j \in Indices(final_df) :
          NoLegs(Input(j)) /\ final_df[j].tc_commodity_final = None

\* C6: a (transaction, commodity) whose final tc quantities do not sum to 0
\* is a row of errors, and so is every transaction with a final posting
\* whose final tc commodity is null
C6_ErrorsComplete ==
    pc = "verified" =>
        /\ \A t \in TransactionNos : \A c \in CommoditySet :
              FinalTcSum(t, c) # 0 => InErrors(t, Some(c))
        /\ \A j \in Indices(final_df) :
              final_df[j].tc_commodity_final = None
                  => InErrors(final_df[j].transaction_no, None)

C6_Witness ==
    /\ pc = "verified"
    /\ \E t \in TransactionNos : \E c \in CommoditySet :
          FinalTcSum(t, c) < 0 /\ InErrors(t, Some(c))
    /\ \E t \in TransactionNos : InErrors(t, None)

\* transaction t has exactly one posting without legs, at least one other
\* posting, and the others are all written in commodity c
OneMissingLeg(t, c) ==
    /\ Cardinality({i \in RowsOf(t) : NoLegs(postings[i])}) = 1
    /\ Cardinality(RowsOf(t)) > 1
    /\ \A i \in RowsOf(t) :
          NoLegs(postings[i])
          \/ /\ AllLegs(postings[i])
             /\ postings[i].cp_commodity = Some(c)
             /\ postings[i].tc_commodity = Some(c)

\* the posting without legs of t gets (-S, c) on both legs, the others keep
\* what was written, and t has no row in errors
ResidualFilled(t, c) ==
    /\ \A j \in FinalRowsOf(t) :
          LET p == Input(j)
              f == final_df[j]
          IN IF NoLegs(p)
             THEN /\ f.cp_commodity_final = Some(c)
                  /\ f.tc_commodity_final = Some(c)
                  /\ f.cp_quantity_final = Some(0 - TcSum(t, c))
                  /\ f.tc_quantity_final = Some(0 - TcSum(t, c))
             ELSE /\ f.cp_commodity_final = p.cp_commodity
                  /\ f.tc_commodity_final = p.tc_commodity
                  /\ f.cp_quantity_final = p.cp_quantity
                  /\ f.tc_quantity_final = p.tc_quantity
    /\ \A e \in errors_df : e.transaction_no # t

\* C7 as claimed: for every sum S of the other postings
C7_AnySum ==
    pc = "verified" =>
        \A t \in TransactionNos : \A c \in CommoditySet :
            OneMissingLeg(t, c) => ResidualFilled(t, c)

\* C7 amended: for every non-zero sum S of the other postings
C7_NonZeroSum ==
    pc = "verified" =>
        \A t \in TransactionNos : \A c \in CommoditySet :
            OneMissingLeg(t, c) /\ TcSum(t, c) # 0 => ResidualFilled(t, c)

C7_Witness ==
    /\ pc = "verified"
    /\ \E t \in TransactionNos : \E c \in CommoditySet :
          OneMissingLeg(t, c) /\ TcSum(t, c) > 0 /\ Cardinality(RowsOf(t)) = 3

\* the smallest commodity of a non-empty set, in str order
Smallest(cs) == CHOOSE c \in cs : \A d \in cs : ~CommodityLess(d, c)

\* C8: a transaction has at most one residual row, that of the smallest
\* commodity whose tc sum is not zero; a posting lacking a leg is filled
\* from that row only; every other unbalanced commodity is in errors
C8_DesignatedResidual ==
    pc = "verified" =>
        \A t \in TransactionNos :
            LET rs == {g \in Residuals(postings) : g.transaction_no = t}
                u == Unbalanced(t)
            IN /\ Cardinality(rs) <= 1
               /\ u = {} => rs = {}
               /\ u # {} =>
                     rs = {[transaction_no |-> t,
                            tc_commodity |-> Some(Smallest(u)),
                            totals |-> Some(0 - TcSum(t, Smallest(u)))]}
               /\ \A j \in FinalRowsOf(t) :
                     /\ Input(j).tc_commodity = None /\ u # {} =>
                           final_df[j].tc_commodity_final = Some(Smallest(u))
                     /\ Input(j).tc_quantity = None /\ u # {} =>
                           final_df[j].tc_quantity_final
                               = Some(0 - TcSum(t, Smallest(u)))
                     /\ Input(j).cp_commodity = None /\ u # {} =>
                           final_df[j].cp_commodity_final = Some(Smallest(u))
                     /\ Input(j).cp_quantity = None /\ u # {} =>
                           final_df[j].cp_quantity_final
                               = Some(0 - TcSum(t, Smallest(u)))
               /\ \A c \in u : c # Smallest(u) => InErrors(t, Some(c))

C8_Witness ==
    /\ pc = "verified"
    /\ \E t \in TransactionNos :
          /\ Cardinality(Unbalanced(t)) = 2
          /\ \E j \in FinalRowsOf(t) :
                NoLegs(Input(j))
                /\ final_df[j].tc_commodity_final = Some(Smallest(Unbalanced(t)))

\* the postings without legs of transaction t
Missing(t) == {j \in FinalRowsOf(t) : NoLegs(Input(j))}

NullFinal(f) ==
    /\ f.cp_commodity_final = None /\ f.cp_quantity_final = None
    /\ f.tc_commodity_final = None /\ f.tc_quantity_final = None

\* C9 as claimed: of two or more postings without legs one still has null
\* final legs, and the transaction is in errors
C9_OneStaysNull ==
    pc = "verified" =>
        \A t \in TransactionNos :
            Cardinality(Missing(t)) >= 2 =>
                /\ \E j \in Missing(t) : NullFinal(final_df[j])
                /\ \E e \in errors_df : e.transaction_no = t

\* C9 amended: two or more postings without legs all get the same final
\* legs (the residual, or null when the transaction has none), and the
\* transaction is in errors
C9_AllAlikeAndInErrors ==
    pc = "verified" =>
        \A t \in TransactionNos :
            Cardinality(Missing(t)) >= 2 =>
                /\ \A j, k \in Missing(t) :
                      /\ final_df[j].cp_commodity_final
                            = final_df[k].cp_commodity_final
                      /\ final_df[j].cp_quantity_final
                            = final_df[k].cp_quantity_final
                      /\ final_df[j].tc_commodity_final
                            = final_df[k].tc_commodity_final
                      /\ final_df[j].tc_quantity_final
                            = final_df[k].tc_quantity_final
                /\ \A j \in Missing(t) :
                      NullFinal(final_df[j]) <=> Unbalanced(t) = {}
                /\ \E e \in errors_df : e.transaction_no = t

C9_Witness ==
    /\ pc = "verified"
    /\ \E t \in TransactionNos :
          /\ Cardinality(Missing(t)) = 2
          /\ \A j \in Missing(t) : ~NullFinal(final_df[j])

\* C10: a transaction whose postings all have both legs passes unchanged,
\* balanced or not
C10_Unchanged ==
    pc = "verified" =>
        \A t \in TransactionNos :
            (\A i \in RowsOf(t) : AllLegs(postings[i])) =>
                \A j \in FinalRowsOf(t) :
                    /\ final_df[j].cp_commodity_final = Input(j).cp_commodity
                    /\ final_df[j].cp_quantity_final = Input(j).cp_quantity
                    /\ final_df[j].tc_commodity_final = Input(j).tc_commodity
                    /\ final_df[j].tc_quantity_final = Input(j).tc_quantity

C10_Witness ==
    /\ pc = "verified"
    /\ \E t \in TransactionNos :
          /\ \A i \in RowsOf(t) : AllLegs(postings[i])
          /\ Unbalanced(t) # {}
          /\ \E j \in FinalRowsOf(t) :
                Input(j).tc_commodity # Input(j).cp_commodity

\* transaction t is fully specified: every posting has both legs
FullySpecified(t) == \A i \in RowsOf(t) : AllLegs(postings[i])

\* the rows of errors for transaction t
ErrorsOf(t) == {e \in errors_df : e.transaction_no = t}

\* C11: an unbalanced transaction does not abort the Balancer: once verify
\* has run, the final postings hold every input posting once; a fully
\* specified transaction whose tc quantities in commodity c sum to d # 0 has
\* a row (t, c) in errors whose total has magnitude |d|; a fully specified
\* transaction whose tc sums are all zero has no row in errors
C11_UnbalancedReported ==
    pc = "verified" =>
        /\ \A i \in Indices(postings) :
              Cardinality({j \in Indices(final_df) :
                  final_df[j].statement_no = postings[i].statement_no}) = 1
        /\ \A t \in TransactionNos :
              FullySpecified(t) =>
                  /\ \A c \in Unbalanced(t) :
                        \E e \in ErrorsOf(t) :
                            /\ e.tc_commodity_final = Some(c)
                            /\ e.totals \in {TcSum(t, c), 0 - TcSum(t, c)}
                  /\ Unbalanced(t) = {} => ErrorsOf(t) = {}

C11_Witness ==
    /\ pc = "verified"
    /\ \E t, u \in TransactionNos :
          /\ FullySpecified(t) /\ \E c \in CommoditySet : TcSum(t, c) < 0
          /\ ErrorsOf(t) # {}
          /\ FullySpecified(u) /\ Unbalanced(u) = {} /\ ErrorsOf(u) = {}

----------------------------------------------------------------------------
(* The Account Hierarchy Builder and the Balance Reporter: properties *)

\* the accounts of the final postings
InputAccounts == {final_df[i].account : i \in Indices(final_df)}

\* the text of account a before one of its ":" separators
ColonPrefixes(a) == {SubSeq(a, 1, k - 1) : k \in {i \in Indices(a) : a[i] = ":"}}

ClosureSet == {accounts_df[i] : i \in Indices(accounts_df)}

\* C12: the account closure is exactly the input accounts together with
\* every non-empty proper prefix of each along ":" boundaries: a superset of
\* the input, prefix-closed, with no other account and no empty account
C12_ClosureExact ==
    pc = "accounts" =>
        /\ InputAccounts \subseteq ClosureSet
        /\ \A a \in ClosureSet : ColonPrefixes(a) \subseteq ClosureSet
        /\ ClosureSet
              = InputAccounts \cup UNION {ColonPrefixes(a) : a \in InputAccounts}
        /\ <<>> \notin ClosureSet

C12_Witness ==
    /\ pc = "accounts"
    /\ InputAccounts = {Str_Assets_a_b, Str_Income_a_b}
    /\ Str_Assets_a \in ClosureSet
    /\ <<"A", "s", "s", "e", "t", "s">> \in ClosureSet
    /\ Cardinality(ClosureSet) = 6

\* C13: the account closure is a list without duplicates, in ascending
\* order of the account string
C13_SortedAscending ==
    pc = "accounts" =>
        \A i, j \in Indices(accounts_df) :
            i < j => StrLess(accounts_df[i], accounts_df[j])

\* the basis of the report in balances_df
Basis == IF pc = "tc_balances" THEN "tc" ELSE "cp"

Reported == pc \in {"tc_balances", "cp_balances", "balances"}

\* the final postings with commodity c whose account starts with a
Under(a, c, basis) ==
    {j \in Indices(final_df) : /\ CommodityOf(final_df[j], basis) = Some(c)
                               /\ StartsWith(final_df[j].account, a)}

\* the sum of the basis's final quantity over those postings
BalanceOf(a, c, basis) ==
    SumOver(Under(a, c, basis),
            [j \in Indices(final_df) |->
                IF QuantityOf(final_df[j], basis) = None THEN 0
                ELSE QuantityOf(final_df[j], basis)[1]])

BalanceRows == {balances_df[i] : i \in Indices(balances_df)}

\* every row of the report carries the sum over the postings of its account
\* and of the descendants, and every (account, commodity) that has such
\* postings is a row of the report
BalancesExact ==
    /\ \A r \in BalanceRows :
          /\ r.account \in ClosureSet
          /\ r.commodity # None
          /\ r.total = BalanceOf(r.account, r.commodity[1], Basis)
    /\ \A a \in ClosureSet : \A c \in CommoditySet :
          Under(a, c, Basis) # {} =>
              \E r \in BalanceRows : r.account = a /\ r.commodity = Some(c)

\* C14: for every account A of the closure and every commodity C, the
\* balance reported for (A, C) on a basis is the sum of that basis's final
\* quantity over the final postings with commodity C whose account starts
\* with A (A and its descendants, never its ancestors)
C14_BalanceOfDescendants == Reported => BalancesExact

\* the same for the report of LedgerParserState::balances alone
BalancesExact_balances == pc = "balances" => BalancesExact

\* the rows are strictly ascending on (account, commodity)
RowsAscending ==
    \A i, j \in Indices(balances_df) :
        i < j => RowLess(balances_df[i], balances_df[j])

\* C15: the rows returned by tc_balances, cp_balances and balances are in
\* ascending order of account and, within one account, of commodity, with
\* at most one row per (account, commodity)
C15_RowsSorted == Reported => RowsAscending

\* the same for the reports of LedgerState::get_balances_df alone
RowsSorted_get_balances_df ==
    pc \in {"tc_balances", "cp_balances"} => RowsAscending

----------------------------------------------------------------------------
(* The parser state: contracts of statement_no, insert, finished_include *)

\* a step in which statement_no() was called (every handler calls it once)
Advanced == Len(issued') = Len(issued) + 1

\* the effect of that call, as the handler's step shows it: the counter, the
\* last offset of the active file and the value returned; the registry and
\* the file stack change only in include_statement (its insert), the
\* transaction_no only in transaction_header (its assignment), and the
\* accumulators are untouched where the handler pushes no record
AdvanceEffect ==
    LET f == get_file_no(State)[1]
        ret == issued'[Len(issued')].no
    IN /\ get_file_no(State) # None
       /\ statement_no' = statement_no + r_start - previous_position[f]
       /\ previous_position'[f] = r_start
       /\ ret = statement_no'
       /\ \A g \in (DOMAIN previous_position) \ {f} :
             previous_position'[g] = previous_position[g]
       /\ CurLine.kind # "include" =>
             /\ UNCHANGED <<input_files, current_file_no, current_filepath>>
             /\ DOMAIN previous_position' = DOMAIN previous_position
       /\ CurLine.kind # "header" => transaction_no' = transaction_no
       /\ CurLine.kind = "include" => UNCHANGED accumulators

\* C16: statement_no(byte_start) with a non-empty file stack adds
\* (byte_start - last_pos[active file]) to the counter, sets last_pos of the
\* active file to byte_start, returns the new counter, and leaves the
\* registry, the stack, the other last_pos, transaction_no and the
\* accumulators unchanged
C16_AdvanceFrame == [][Advanced => AdvanceEffect]_vars

C16_Witness ==
    /\ pc = "parsing"
    /\ Len(current_file_no) = 2
    /\ Len(issued) >= 3
    /\ previous_position[current_file_no[1]] > 0
    /\ previous_position[current_file_no[2]] > 0
    /\ statement_no > previous_position[current_file_no[2]]
    /\ transactions # <<>>

\* a step of include_statement up to its parse_file call (statement_no,
\* then insert of the resolved path)
EnterInclude == pc = "parsing" /\ AtLine /\ CurLine.kind = "include" /\ Advanced

\* C17: insert of a resolved path, registered or not, pushes the file onto
\* the file stack, so that it is the active file, and sets its last_pos to
\* 0; a file_no is newly assigned only when the path is new
C17_InsertPushes ==
    [][EnterInclude =>
          LET path == Resolve(CurLine.abs, CurLine.path,
                              get_current_filepath(State)[1])
          IN /\ path \in DOMAIN input_files'
             /\ current_file_no' = Append(current_file_no, input_files'[path])
             /\ get_current_filepath(State') = Some(path)
             /\ previous_position'[input_files'[path]] = 0
             /\ path \in DOMAIN input_files => input_files' = input_files
             /\ path \notin DOMAIN input_files =>
                   input_files' = MapInsert(input_files, path,
                                            Cardinality(DOMAIN input_files))
    ]_vars

\* a step in which an include directive completes: parse_file returned Ok,
\* finished_include ran and the Include record was pushed
IncludeCompletes ==
    /\ AtEof /\ Len(frames) > 1
    /\ Len(includes') = Len(includes) + 1

\* C18: after an include directive (first or repeated inclusion) the counter
\* has absorbed the rest of the included file, exactly the included file
\* was popped, and the file stack and the active file (file_no and path)
\* are as they were immediately before the directive
C18_IncludeRestores ==
    [][IncludeCompletes =>
          LET included == input_files[Top.path]
          IN /\ statement_no' = statement_no + TotalBytes(Content)
                                    - previous_position[included]
             /\ previous_position'[included] = TotalBytes(Content)
             /\ get_file_no(State) = Some(included)
             /\ current_file_no' = Top.before.current_file_no
             /\ get_file_no(State') = get_file_no(Top.before)
             /\ get_current_filepath(State') = get_current_filepath(Top.before)
    ]_vars

\* the handler at the current position calls statement_no or
\* finished_include
CallsAdvance ==
    \/ AtLine /\ CurLine.kind \in {"open", "event", "header", "include"}
    \/ AtLine /\ CurLine.kind = "posting" /\ Top.inTxn
    \/ AtEof /\ Len(frames) > 1

\* during a parse the file stack is not empty where statement_no or
\* finished_include is called
StackNotEmpty == pc = "parsing" /\ CallsAdvance => get_file_no(State) # None

\* a call on an empty file stack aborts: no number is returned, the counter
\* and the last offsets are as they were
EmptyStackFatal ==
    get_file_no(State) = None /\ pc' # pc /\ pc' # "parsing" =>
        /\ pc' = "panic"
        /\ UNCHANGED <<statement_no, previous_position, issued>>

\* C19: statement_no or finished_include on an empty file stack is a fatal
\* error that returns no number and changes neither the counter nor
\* last_pos; and in a parse started by insert(root), parse_filename(root)
\* the stack is never empty when statement_no is called
C19_EmptyStack == []StackNotEmpty /\ [][EmptyStackFatal]_vars

C19_Witness ==
    /\ pc = "panic"
    /\ DOMAIN input_files = {}
    /\ current_file_no = <<>>
    /\ statement_no = 0 /\ issued = <<>>

\* the record a statement handler appends in this step, if any
Appended ==
    (IF Len(transactions') = Len(transactions) + 1
     THEN {transactions'[Len(transactions')]} ELSE {})
    \cup (IF Len(postings') = Len(postings) + 1
          THEN {postings'[Len(postings')]} ELSE {})
    \cup (IF Len(verifications') = Len(verifications) + 1
          THEN {verifications'[Len(verifications')]} ELSE {})
    \cup (IF Len(informationals') = Len(informationals) + 1
          THEN {informationals'[Len(informationals')]} ELSE {})

\* the file being parsed is one whose path was registered already when its
\* include directive was met
Reincluded ==
    /\ pc = "parsing" /\ Len(frames) > 1 /\ AtLine
    /\ Top.path \in DOMAIN Top.before.input_files

\* C20: when a path is included a second time the registry keeps its single
\* entry with the file_no of the first inclusion, and the file is parsed
\* again: each record appended carries the file_no of the included file and
\* the start and end offsets within the included file
C20_ReincludedRecords ==
    [][Reincluded =>
          /\ input_files[Top.path] = Top.before.input_files[Top.path]
          /\ DOMAIN input_files = DOMAIN Top.before.input_files
          /\ \A r \in Appended :
                /\ r.file_no = input_files[Top.path]
                /\ r.start = r_start
                /\ r.end = r_end
    ]_vars

----------------------------------------------------------------------------
(* Include directives: resolution, the Include record, termination *)

\* the path the directive on the current line names, resolved against the
\* file that contains the directive
ExpectedPath == Resolve(CurLine.abs, CurLine.path, Top.path)

\* C21: for every sequence of include directives, a relative include path is
\* resolved against the parent directory of the file that contains the
\* directive, and an absolute path is used verbatim: that path is the one
\* registered and the one whose file is read
C21_ResolvedAgainstContainingFile ==
    [][EnterInclude =>
          /\ ExpectedPath \in DOMAIN input_files'
          /\ (DOMAIN input_files') \ (DOMAIN input_files) \subseteq {ExpectedPath}
          /\ Len(frames') = Len(frames) + 1 =>
                frames'[Len(frames')].path = ExpectedPath
    ]_vars

\* the numbers taken by the statements of the included file (and of the
\* files it includes) since the directive of the innermost frame
IssuedInside ==
    {issued[i].no : i \in {k \in Indices(issued) :
                              /\ k > Top.issued_before + 1
                              /\ issued[k].by # "include"}}

\* C22: the Include record is appended only after the included file was
\* parsed to its end; it carries the statement_no taken at the directive
\* before recursing, the file_no of the including file and the path as
\* written; every record emitted from the included file has a statement_no
\* greater than the Include record's
C22_IncludeRecord ==
    [][Len(includes') = Len(includes) + 1 =>
          LET r == includes'[Len(includes')]
              up == frames[Len(frames) - 1]
          IN /\ AtEof /\ Len(frames) > 1
             /\ issued[Top.issued_before + 1]
                   = [no |-> r.statement_no, by |-> "include"]
             /\ r.file_no = input_files[up.path]
             /\ r.path = fs[up.path][up.idx].path
             /\ \A n \in IssuedInside : n > r.statement_no
    ]_vars

\* C23: a transaction header line that is not followed by a posting line
\* makes the parse fail: when parse_filename returns, no Header record is
\* without a posting whose transaction_no is its statement_no
C23_HeaderHasPosting ==
    pc = "parsed" =>
        \A i \in Indices(transactions) :
            \E k \in Indices(postings) :
                postings[k].transaction_no = transactions[i].statement_no

----------------------------------------------------------------------------
\* what a final row keeps of its input posting
Identity(r) == <<r.statement_no, r.transaction_no, r.account>>

\* the transactions for which the join has no residual row
NoResidual(t) == \A g \in Residuals(postings) : g.transaction_no # t

\* C27: the final postings hold exactly one row per input posting: no
\* posting is duplicated or dropped by the join with the residuals, and the
\* statement_no, transaction_no and account of a row are those of its
\* input posting
C27_OneRowPerPosting ==
    pc = "verified" =>
        /\ Len(final_df) = Len(postings)
        /\ \A i \in Indices(postings) :
              Cardinality({j \in Indices(final_df) :
                  Identity(final_df[j]) = Identity(postings[i])})
              = Cardinality({k \in Indices(postings) :
                  Identity(postings[k]) = Identity(postings[i])})

C27_Witness ==
    /\ pc = "verified"
    /\ \E t, u \in TransactionNos :
          /\ Cardinality(Unbalanced(t)) > 1
          /\ NoResidual(u)
    /\ Len(final_df) = 3

----------------------------------------------------------------------------
\* a base account: an account name of one segment
IsBase(a) == Len(Split(a)) = 1

\* the rows of the report for the base accounts in commodity c
BaseRows(c) ==
    {i \in Indices(balances_df) : /\ IsBase(balances_df[i].account)
                                  /\ balances_df[i].commodity = Some(c)}

\* the final postings whose tc commodity is c
PostedIn(c) ==
    {j \in Indices(final_df) : final_df[j].tc_commodity_final = Some(c)}

----------------------------------------------------------------------------
\* C29: parsing terminates for every finite set of files: the recursion on
\* include never enters a file that is still being parsed further down the
\* stack of parse_file calls, so its depth is at most the number of files
C29_NoFileInsideItself ==
    \A i, j \in Indices(frames) :
        i # j => frames[i].path # frames[j].path

----------------------------------------------------------------------------
(* The importers *)

\* C24: every Header, Posting and Verification an importer appends takes
\* its statement_no from the atomic counter of the state: the numbers are
\* below the counter, no two records share one, they increase in the order
\* of emission (a header, then its postings, then the next row), and the
\* transaction_no of a posting is the statement_no of the header of its row
C24_ImportedNumbers ==
    /\ \A r \in Records : r.no < line_count
    /\ \A r1, r2 \in Records : r1 # r2 => r1.no # r2.no
    /\ \A i, j \in Indices(transactions) :
          i < j => transactions[i].statement_no < transactions[j].statement_no
    /\ \A i, j \in Indices(postings) :
          i < j => postings[i].statement_no < postings[j].statement_no
    /\ \A i, j \in Indices(verifications) :
          i < j => verifications[i].statement_no
                       < verifications[j].statement_no
    /\ \A k \in Indices(postings) :
          /\ \E h \in Indices(transactions) :
                /\ transactions[h].statement_no = postings[k].transaction_no
                /\ transactions[h].statement_no < postings[k].statement_no
          /\ \A h \in Indices(transactions) :
                transactions[h].statement_no > postings[k].transaction_no
                    => postings[k].statement_no < transactions[h].statement_no

\* the loops of the three csv importers of transactions
CsvImporting == pc \in {"rj_usa", "rj_cdn_activites", "rj_cdn_closed"}

\* the postings the importer at work makes of row t
PostsOf(t) ==
    CASE pc = "rj_usa" -> us_posts(t)
      [] pc = "rj_cdn_activites" -> cdn_posts(t)
      [] pc = "rj_cdn_closed" -> closed_posts(t)

\* a row that cannot be read: it does not deserialize, its settlement date
\* does not parse, or it maps to no postings
Unreadable(t) == ~t.ok \/ t.settled = None \/ PostsOf(t) = <<>>

\* C25: in the csv importers a row that cannot be read is skipped: the step
\* that reads it appends no Header and no Posting and the importer goes on
\* with the next row instead of aborting; and no Header is ever in
\* transactions without a posting of its transaction
C25_UnreadableRowSkipped ==
    /\ [](CsvImporting =>
            \A h \in Indices(transactions) :
                \E k \in Indices(postings) :
                    postings[k].transaction_no = transactions[h].statement_no)
    /\ [][(CsvImporting /\ rdr # <<>> /\ Unreadable(Head(rdr))) =>
             /\ UNCHANGED <<transactions, postings>>
             /\ rdr' = Tail(rdr)
             /\ pc' = pc
         ]_vars

\* C26: every Posting record of the postings accumulator follows the
\* two-leg model: a posting with a cp leg and no explicit total cost has the
\* cp pair as its tc pair, so that tc is null only when cp is null too
C26_TwoLegs ==
    \A k \in Indices(postings) :
        /\ postings[k].tc_quantity = None => postings[k].cp_quantity = None
        /\ postings[k].tc_commodity = None => postings[k].cp_commodity = None

\* the final postings of transaction t are there and fully populated
Populated(t) ==
    /\ FinalRowsOf(t) # {}
    /\ \A j \in FinalRowsOf(t) :
          /\ final_df[j].cp_commodity_final # None
          /\ final_df[j].cp_quantity_final # None
          /\ final_df[j].tc_commodity_final # None
          /\ final_df[j].tc_quantity_final # None

\* the header lines printed for transaction t
HeaderLines(t) ==
    {i \in Indices(stdout) : stdout[i].line = "header" /\ stdout[i].t_no = t}

\* C30: write_transactions prints the header line of every transaction
\* whose final postings are fully populated exactly once, and before the
\* posting lines of the transaction, whatever its transaction_no (0 too)
C30_HeaderOnce ==
    pc = "written" =>
        \A h \in Indices(transactions) :
            LET t == transactions[h].statement_no
            IN Populated(t) =>
                  /\ Cardinality(HeaderLines(t)) = 1
                  /\ \A j \in Indices(stdout) :
                        (stdout[j].line = "posting" /\ stdout[j].of = t)
                            => \E i \in HeaderLines(t) : i < j

====
